---------------------------- MODULE Spec2Model ----------------------------
(***************************************************************************)
(* Model of src/app.py: the colour normaliser rgba_to_rgb and the          *)
(* generation entry point generate_qr_code.                                *)
(*                                                                         *)
(* Strings are sequences of one-character strings, so that slicing,        *)
(* splitting, stripping and number parsing are computed as Python computes *)
(* them.  The alphabet of the colour strings fed to the model is           *)
(*   0-9 . + - space , ( ) # r g b a f x                                   *)
(* which leaves out the exponent, underscore, "inf" and "nan" forms that   *)
(* Python's float() also accepts.                                          *)
(***************************************************************************)
EXTENDS Integers, Sequences, FiniteSets, TLC

VARIABLES
    \* ---- one call of rgba_to_rgb (specification SpecColor) ----
    color_str,      \* the argument
    comps,          \* the numbers the argument was printed from (<<>> if none)
    out,            \* the value returned or the exception raised
    cpc,            \* "idle" | "call" | "done"
    \* ---- one call of generate_qr_code (specification Spec) ----
    pc,             \* position in generate_qr_code
    text,           \* argument text
    fill_color,     \* argument / local fill_color
    back_color,     \* argument / local back_color
    logo_file,      \* argument logo_file
    img,            \* local img
    tmp_filename,   \* local tmp_filename
    result,         \* what the call returned
    exc,            \* the exception that left the call, if any
    ran,            \* the pipeline steps executed so far, in order
    files           \* the output directory: file name -> content

colorVars == <<color_str, comps, out, cpc>>
callVars == <<pc, text, fill_color, back_color, logo_file, img, tmp_filename,
              result, exc, ran, files>>
vars == <<color_str, comps, out, cpc, pc, text, fill_color, back_color,
          logo_file, img, tmp_filename, result, exc, ran, files>>

---------------------------------------------------------------------------
(* Python string primitives *)

Digits == <<"0", "1", "2", "3", "4", "5", "6", "7", "8", "9">>

IsDigit(c) == \E i \in 1..10 : Digits[i] = c

DigitVal(c) == (CHOOSE i \in 1..10 : Digits[i] = c) - 1

Min(a, b) == IF a < b THEN a ELSE b

\* s.startswith(p)
startswith(s, p) == Len(s) >= Len(p) /\ SubSeq(s, 1, Len(p)) = p

\* s[5:-1]
slice_5_m1(s) == IF Len(s) - 1 >= 6 THEN SubSeq(s, 6, Len(s) - 1) ELSE <<>>

\* s.split(",")
RECURSIVE split(_)
split(s) ==
    IF \A i \in 1..Len(s) : s[i] # ","
    THEN <<s>>
    ELSE LET i == CHOOSE k \in 1..Len(s) :
                      s[k] = "," /\ \A j \in 1..(k - 1) : s[j] # ","
         IN  <<SubSeq(s, 1, i - 1)>> \o split(SubSeq(s, i + 1, Len(s)))

\* s.strip()
RECURSIVE strip(_)
strip(s) ==
    IF s = <<>> THEN s
    ELSE IF s[1] = " " THEN strip(Tail(s))
    ELSE IF s[Len(s)] = " " THEN strip(SubSeq(s, 1, Len(s) - 1))
    ELSE s

\* the value of a sequence of decimal digits
RECURSIVE DecVal(_)
DecVal(ds) ==
    IF ds = <<>> THEN 0
    ELSE 10 * DecVal(SubSeq(ds, 1, Len(ds) - 1)) + DigitVal(ds[Len(ds)])

\* float(p): [ok] says whether the string is a float literal (ValueError
\* otherwise); the value is sign, whole part and fraction digits.  The
\* inputs carry at most two fraction digits, so no value is rounded up to
\* the next integer by the binary representation.
float(p) ==
    LET t      == strip(p)
        signed == t # <<>> /\ t[1] \in {"+", "-"}
        u      == IF signed THEN Tail(t) ELSE t
        dots   == {i \in 1..Len(u) : u[i] = "."}
        dot    == IF dots = {} THEN Len(u) + 1 ELSE CHOOSE i \in dots : TRUE
        w      == SubSeq(u, 1, dot - 1)
        f      == SubSeq(u, dot + 1, Len(u))
    IN  [ok    |-> /\ Cardinality(dots) <= 1
                   /\ \A i \in 1..Len(w) : IsDigit(w[i])
                   /\ \A i \in 1..Len(f) : IsDigit(f[i])
                   /\ Len(w) + Len(f) >= 1,
         neg   |-> signed /\ t[1] = "-",
         whole |-> IF \A i \in 1..Len(w) : IsDigit(w[i]) THEN DecVal(w) ELSE 0,
         frac  |-> f]

\* a mutant of int: rounds half up instead of truncating
int_round(x) ==
    LET up == x.frac # <<>> /\ IsDigit(x.frac[1]) /\ DigitVal(x.frac[1]) >= 5
        m  == IF up THEN x.whole + 1 ELSE x.whole
    IN  IF x.neg THEN 0 - m ELSE m

\* int(x) of a float: truncation toward zero
int(x) == IF x.neg THEN 0 - x.whole ELSE x.whole

---------------------------------------------------------------------------
(* Values: a string, an (r, g, b) tuple, or None; and call outcomes *)

None == [kind |-> "None", str |-> <<>>, rgb |-> <<>>]
Str(s) == [kind |-> "str", str |-> s, rgb |-> <<>>]
Rgb(r, g, b) == [kind |-> "tuple", str |-> <<>>, rgb |-> <<r, g, b>>]

Return(v) == [how |-> "return", val |-> v, exc |-> "-"]
Raise(e) == [how |-> "raise", val |-> None, exc |-> e]
Pending == [how |-> "-", val |-> None, exc |-> "-"]

---------------------------------------------------------------------------
(* rgba_to_rgb, src/app.py lines 9-31 *)

\* parts[:3]
first3(parts) == SubSeq(parts, 1, Min(3, Len(parts)))

\* a mutant of passthrough: returns the string stripped of blanks
passthrough_stripped(s) == Return(Str(strip(s)))

\* return color_str (lines 22 and 31)
passthrough(s) == Return(Str(s))

rgba_to_rgb(s) ==
    IF startswith(s, <<"#">>) THEN passthrough(s)
    ELSE IF startswith(s, <<"r", "g", "b", "a">>)
    THEN LET parts == split(slice_5_m1(s))
             p3    == first3(parts)
             fl    == [i \in 1..Len(p3) |-> float(strip(p3[i]))]
         IN  IF \E i \in 1..Len(p3) : ~fl[i].ok
             THEN Raise("ValueError")       \* float() of a non-number
             ELSE IF Len(p3) # 3
             THEN Raise("ValueError")       \* r, g, b = [...] cannot unpack
             ELSE Return(Rgb(int(fl[1]), int(fl[2]), int(fl[3])))
    ELSE passthrough(s)

---------------------------------------------------------------------------
(* The colour strings fed to rgba_to_rgb *)

MaxParts == 4       \* most comma-separated components of an arbitrary input

RECURSIVE DigitsOf(_)
DigitsOf(n) ==
    IF n < 10 THEN <<Digits[n + 1]>>
    ELSE DigitsOf(n \div 10) \o <<Digits[(n % 10) + 1]>>

\* a non-negative decimal number, printed as Python prints it
Fmt(x) == DigitsOf(x.whole) \o (IF x.frac = <<>> THEN <<>> ELSE <<".">> \o x.frac)

RECURSIVE join(_, _)
join(parts, sep) ==
    IF parts = <<>> THEN <<>>
    ELSE IF Len(parts) = 1 THEN parts[1]
    ELSE parts[1] \o sep \o join(Tail(parts), sep)

IsZero(f) == \A i \in 1..Len(f) : f[i] = "0"

\* r, g, b in [0, 255], possibly fractional
Channels ==
    {x \in [whole : {0, 9, 255}, frac : {<<>>, <<"0">>, <<"5">>, <<"9", "9">>}] :
        x.whole < 255 \/ IsZero(x.frac)}

\* a in [0, 255]
Alphas ==
    {x \in [whole : {0, 1, 255}, frac : {<<>>, <<"5">>}] :
        x.whole < 255 \/ IsZero(x.frac)}

\* rgba(r,g,b,a), with or without a blank after each comma
RgbaString(r, g, b, a, blank) ==
    <<"r", "g", "b", "a", "(">>
        \o join(<<Fmt(r), Fmt(g), Fmt(b), Fmt(a)>>, <<",">> \o blank)
        \o <<")">>

HexStrings ==
    { <<"#", "0", "0", "0", "0", "0", "0">>,
      <<"#", "f", "f", "f", "f", "f", "f">>,
      <<"#", "f", "f", "0", "0", "0", "0">> }

Prefixes ==
    { <<"r", "g", "b", "a", "(">>, <<"#">>, <<"r", "g", "b", "(">>,
      <<" ", "r", "g", "b", "a", "(">>, <<>> }

Tokens ==
    { <<"0">>, <<"3", "0", "0">>, <<"-", "1", ".", "5">>, <<"x">>,
      <<" ", "7", " ">> }

Suffixes == { <<")">>, <<>> }

TokenLists == UNION {[1..n -> Tokens] : n \in 0..MaxParts}

ColorInit ==
    /\ cpc = "call"
    /\ out = Pending
    /\ \/ \E r \in Channels, g \in Channels, b \in Channels, a \in Alphas,
             blank \in {<<>>, <<" ">>} :
             /\ comps = <<r, g, b, a>>
             /\ color_str = RgbaString(r, g, b, a, blank)
       \/ /\ comps = <<>>
          /\ \/ color_str \in HexStrings
             \/ \E p \in Prefixes, ts \in TokenLists, e \in Suffixes :
                    color_str = p \o join(ts, <<",">>) \o e

ColorIdle ==
    /\ cpc = "idle"
    /\ out = Pending
    /\ comps = <<>>
    /\ color_str = <<>>

\* the call rgba_to_rgb(color_str)
ColorCall ==
    /\ cpc = "call"
    /\ out' = rgba_to_rgb(color_str)
    /\ cpc' = "done"
    /\ UNCHANGED <<color_str, comps>>
    /\ UNCHANGED callVars

---------------------------------------------------------------------------
(* generate_qr_code, src/app.py lines 34-102 *)

MaxVersion == 40    \* the largest symbol version of the QR standard
NumIds == 2         \* how many distinct values uuid4 is drawn from

Ids == 1..NumIds

\* A payload is described by the smallest symbol version whose capacity, at
\* error correction H, holds it: 0 for the empty string, MaxVersion + 1 for
\* a payload no version can hold.
NoneText == [none |-> TRUE, need |-> 0]
Text(n) == [none |-> FALSE, need |-> n]

NoBox == [x |-> 0, y |-> 0, w |-> 0, h |-> 0]

\* images: None, or a raster of w x h pixels; box is the pasted logo's rectangle
NoneImg == [null |-> TRUE, mode |-> "-", w |-> 0, h |-> 0, data |-> NoneText,
            fill |-> None, back |-> None, box |-> NoBox]

Partial == [NoneImg EXCEPT !.null = FALSE, !.mode = "partial"]

NoneFile == [present |-> FALSE, readable |-> FALSE, w |-> 0, h |-> 0]
LogoFile(ok, w, h) == [present |-> TRUE, readable |-> ok, w |-> w, h |-> h]

NonePath == [null |-> TRUE, uuid |-> 0]
Path(u) == [null |-> FALSE, uuid |-> u]

NoResult == [returned |-> FALSE, image |-> NoneImg, path |-> NonePath]
Pair(i, f) == [returned |-> TRUE, image |-> i, path |-> f]

NoFiles == [u \in Ids |-> NoneImg]

box_size == 10
border == 4

factor == 4

\* a mutant of not_: tests only for None
not_is_none(t) == t.none

\* not text (line 50): None and "" are falsy
not_(t) == t.none \/ t.need = 0

\* qr.make(fit=True): the version chosen, 0 when the data overflows
best_fit(t) == IF t.need <= MaxVersion THEN t.need ELSE 0

\* side of the module matrix of a version
modules_count(version) == version * 4 + 17

IsHex(c) == IsDigit(c) \/ c \in {"a", "b", "f"}

\* whether Pillow is known to take the colour; it decides for the others
known_color(c) ==
    \/ c.kind = "tuple" /\ \A i \in 1..3 : c.rgb[i] \in 0..255
    \/ /\ c.kind = "str" /\ Len(c.str) = 7 /\ c.str[1] = "#"
       /\ \A i \in 2..7 : IsHex(c.str[i])

\* a mutant of make_image: the border is left out
make_image_no_border(version, t, fill, back) ==
    LET side == modules_count(version) * box_size
    IN  [null |-> FALSE, mode |-> "RGB", w |-> side, h |-> side, data |-> t,
         fill |-> fill, back |-> back, box |-> NoBox]

\* qr.make_image(fill_color, back_color).convert("RGB") (lines 58-73)
make_image(version, t, fill, back) ==
    LET side == (modules_count(version) + border * 2) * box_size
    IN  [null |-> FALSE, mode |-> "RGB", w |-> side, h |-> side, data |-> t,
         fill |-> fill, back |-> back, box |-> NoBox]

\* a mutant of logo_size: a third instead of a quarter
logo_size_third(img_w, img_h) == [w |-> img_w \div 3, h |-> img_h \div 3]

\* logo_size (lines 84-85)
logo_size(img_w, img_h) == [w |-> img_w \div factor, h |-> img_h \div factor]

\* a mutant of resize: keeps the logo's aspect ratio
resize_thumbnail(logo, size) ==
    IF logo.w * size.h >= logo.h * size.w
    THEN [w |-> size.w, h |-> (logo.h * size.w) \div logo.w]
    ELSE [w |-> (logo.w * size.h) \div logo.h, h |-> size.h]

\* logo.resize(logo_size) (line 86): a direct stretch to the given size
resize(logo, size) == [w |-> size.w, h |-> size.h]

\* pos (lines 89-92)
pos(img_w, img_h, size) ==
    [x |-> (img_w - size.w) \div 2, y |-> (img_h - size.h) \div 2]

\* img.paste(logo, pos, mask=logo) (line 95): the image keeps its size
paste(i, logo, at) ==
    [i EXCEPT !.box = [x |-> at.x, y |-> at.y, w |-> logo.w, h |-> logo.h]]

CallIdle ==
    /\ pc = "idle"
    /\ text = NoneText
    /\ fill_color = None
    /\ back_color = None
    /\ logo_file = NoneFile
    /\ img = NoneImg
    /\ tmp_filename = NonePath
    /\ result = NoResult
    /\ exc = "-"
    /\ ran = <<>>
    /\ files = NoFiles

\* the arguments of the call
Texts == {NoneText} \cup {Text(n) : n \in 0..(MaxVersion + 1)}

FillColors ==
    { Str(<<"#", "0", "0", "0", "0", "0", "0">>),
      Str(RgbaString([whole |-> 255, frac |-> <<>>], [whole |-> 0, frac |-> <<>>],
                     [whole |-> 0, frac |-> <<>>], [whole |-> 1, frac |-> <<>>],
                     <<" ">>)),
      Str(<<"r", "g", "b", "a", "(", "1", ",", "2", ")">>),
      Str(<<"r", "g", "b", "a", "(", "x", ",", "0", ",", "0", ",", "1", ")">>),
      Str(<<"x">>) }

BackColors ==
    { Str(<<"#", "f", "f", "f", "f", "f", "f">>),
      Str(<<"r", "g", "b", "a", "(", "3", "0", "0", ",", "0", ",", "0", ")">>),
      Str(<<"r", "g", "b", "a", "(", ")">>) }

LogoFiles ==
    {NoneFile} \cup
    {LogoFile(ok, d[1], d[2]) : ok \in BOOLEAN, d \in {<<100, 100>>, <<400, 100>>}}

CallInit ==
    /\ pc = "check"
    /\ text \in Texts
    /\ fill_color \in FillColors
    /\ back_color \in BackColors
    /\ logo_file \in LogoFiles
    /\ img = NoneImg
    /\ tmp_filename = NonePath
    /\ result = NoResult
    /\ exc = "-"
    /\ ran = <<>>
    /\ files = NoFiles

\* the call leaves by an exception
raise(step, e) ==
    /\ pc' = "raised"
    /\ exc' = e
    /\ ran' = Append(ran, step)

\* lines 49-51
CheckText ==
    /\ UNCHANGED colorVars
    /\ pc = "check"
    /\ ran' = Append(ran, "check")
    /\ IF not_(text)
       THEN pc' = "done" /\ result' = Pair(NoneImg, NonePath)
       ELSE pc' = "normalize" /\ UNCHANGED result
    /\ UNCHANGED <<text, fill_color, back_color, logo_file, img, tmp_filename,
                   exc, files>>

\* a mutant of Normalize: a failure is turned into the null result
Normalize_swallow ==
    /\ UNCHANGED colorVars
    /\ pc = "normalize"
    /\ LET f == rgba_to_rgb(fill_color.str)
           b == rgba_to_rgb(back_color.str)
       IN  IF f.how = "raise" \/ b.how = "raise"
           THEN /\ pc' = "done" /\ result' = Pair(NoneImg, NonePath)
                /\ ran' = Append(ran, "normalize")
                /\ UNCHANGED <<fill_color, back_color, exc>>
           ELSE /\ fill_color' = f.val /\ back_color' = b.val
                /\ pc' = "encode" /\ ran' = Append(ran, "normalize")
                /\ UNCHANGED <<result, exc>>
    /\ UNCHANGED <<text, logo_file, img, tmp_filename, files>>

\* lines 53-55
Normalize ==
    /\ UNCHANGED colorVars
    /\ pc = "normalize"
    /\ LET f == rgba_to_rgb(fill_color.str)
           b == rgba_to_rgb(back_color.str)
       IN  IF f.how = "raise"
           THEN raise("normalize", f.exc) /\ UNCHANGED <<fill_color, back_color>>
           ELSE IF b.how = "raise"
           THEN /\ raise("normalize", b.exc)
                /\ fill_color' = f.val /\ UNCHANGED back_color
           ELSE /\ fill_color' = f.val /\ back_color' = b.val
                /\ pc' = "encode" /\ ran' = Append(ran, "normalize")
                /\ UNCHANGED exc
    /\ UNCHANGED <<text, logo_file, img, tmp_filename, result, files>>

\* lines 57-73
Encode ==
    /\ UNCHANGED colorVars
    /\ pc = "encode"
    /\ LET version == best_fit(text)
       IN  IF version = 0
           THEN raise("encode", "DataOverflowError") /\ UNCHANGED img
           ELSE \/ /\ img' = make_image(version, text, fill_color, back_color)
                   /\ pc' = "composite" /\ ran' = Append(ran, "encode")
                   /\ UNCHANGED exc
                \/ /\ ~known_color(fill_color) \/ ~known_color(back_color)
                   /\ raise("encode", "ValueError") /\ UNCHANGED img
    /\ UNCHANGED <<text, fill_color, back_color, logo_file, tmp_filename,
                   result, files>>

\* lines 75-95
Composite ==
    /\ UNCHANGED colorVars
    /\ pc = "composite"
    /\ IF logo_file.present
       THEN IF ~logo_file.readable
            THEN raise("composite", "UnidentifiedImageError") /\ UNCHANGED img
            ELSE LET size == logo_size(img.w, img.h)
                     logo == resize(logo_file, size)
                 IN  /\ img' = paste(img, logo, pos(img.w, img.h, size))
                     /\ pc' = "persist" /\ ran' = Append(ran, "composite")
                     /\ UNCHANGED exc
       ELSE /\ pc' = "persist" /\ ran' = Append(ran, "composite")
            /\ UNCHANGED <<img, exc>>
    /\ UNCHANGED <<text, fill_color, back_color, logo_file, tmp_filename,
                   result, files>>

\* lines 97-99: uuid4 names the file; img.save writes it or fails, and a
\* failed save may leave an incomplete file behind
Persist ==
    /\ UNCHANGED colorVars
    /\ pc = "persist"
    /\ \E u \in Ids :
          /\ tmp_filename' = Path(u)
          /\ \/ /\ files' = [files EXCEPT ![u] = img]
                /\ pc' = "return" /\ ran' = Append(ran, "persist")
                /\ UNCHANGED exc
             \/ /\ raise("persist", "OSError")
                /\ \/ UNCHANGED files
                   \/ files' = [files EXCEPT ![u] = Partial]
    /\ UNCHANGED <<text, fill_color, back_color, logo_file, img, result>>

\* lines 101-102
ReturnPair ==
    /\ UNCHANGED colorVars
    /\ pc = "return"
    /\ result' = Pair(img, tmp_filename)
    /\ pc' = "done"
    /\ ran' = Append(ran, "return")
    /\ UNCHANGED <<text, fill_color, back_color, logo_file, img, tmp_filename,
                   exc, files>>

Next ==
    \/ CheckText
    \/ Normalize
    \/ Encode
    \/ Composite
    \/ Persist
    \/ ReturnPair

Init == ColorIdle /\ CallInit

Spec == Init /\ [][Next]_vars

InitColor == ColorInit /\ CallIdle

NextColor == ColorCall

SpecColor == InitColor /\ [][NextColor]_vars

---------------------------------------------------------------------------
(* The claims *)

IsEmptyPayload == text.none \/ text.need = 0

NullPair == Pair(NoneImg, NonePath)

Pipeline == <<"check", "normalize", "encode", "composite", "persist", "return">>

\* C1: a call whose payload is empty or absent returns (None, None) and
\* writes no file, whatever the colours and the logo are: it never gets
\* past the payload test, raises nothing and leaves the directory as it was.
C1_EmptyPayloadNullPair ==
    IsEmptyPayload =>
        /\ files = NoFiles
        /\ exc = "-"
        /\ pc \in {"check", "done"}
        /\ pc = "done" => result = NullPair

\* an empty string with a malformed fill colour and a logo has returned
C1_Witness ==
    /\ pc = "done" /\ ~text.none /\ text.need = 0
    /\ rgba_to_rgb(fill_color.str).how = "raise"
    /\ logo_file.present
    /\ result = NullPair

\* C2: with a non-empty payload a failure of a step ends the call by an
\* exception: the steps run are a prefix of the pipeline ending with the
\* failing step, nothing runs afterwards, no file exists unless the failing
\* step is the persist step, nothing is returned; and (None, None) is returned
\* only for an empty or absent payload.
C2_FailureAborts ==
    /\ pc = "raised" =>
          /\ ~IsEmptyPayload
          /\ exc # "-"
          /\ result = NoResult
          /\ ran = SubSeq(Pipeline, 1, Len(ran))
          /\ ran[Len(ran)] \in {"normalize", "encode", "composite", "persist"}
          /\ ran[Len(ran)] # "persist" => files = NoFiles
          /\ ~ENABLED Next
    /\ result = NullPair => IsEmptyPayload
    /\ pc = "done" /\ ~IsEmptyPayload =>
          result.returned /\ ~result.image.null /\ ~result.path.null

\* colour normalisation has failed and ended the call
C2_Witness ==
    /\ pc = "raised" /\ exc = "ValueError"
    /\ ran = <<"check", "normalize">>
    /\ text.need > 0

\* C3: for rgba(r,g,b,a) with numeric components in [0, 255] the result is
\* the triple of r, g and b truncated to integers, whatever a is.
C3_RgbaTruncates ==
    cpc = "done" /\ comps # <<>> =>
        out = Return(Rgb(comps[1].whole, comps[2].whole, comps[3].whole))

\* a fractional red channel and an alpha of 255 give a red of 9
C3_Witness ==
    /\ cpc = "done" /\ comps # <<>>
    /\ comps[1] = [whole |-> 9, frac |-> <<"9", "9">>]
    /\ comps[4].whole = 255
    /\ out = Return(Rgb(9, comps[2].whole, comps[3].whole))

\* rgba( four numeric components )
WellFormedRgba(s) ==
    /\ Len(s) >= 6
    /\ SubSeq(s, 1, 5) = <<"r", "g", "b", "a", "(">>
    /\ s[Len(s)] = ")"
    /\ LET parts == split(SubSeq(s, 6, Len(s) - 1))
       IN  Len(parts) = 4 /\ \A i \in 1..4 : float(parts[i]).ok

HasRgbaPrefix(s) ==
    Len(s) >= 4 /\ s[1] = "r" /\ s[2] = "g" /\ s[3] = "b" /\ s[4] = "a"

\* C4: a malformed rgba(...) string (wrong number of components, or a
\* component that is no number) makes the normaliser fail with
\* InvalidColorFormat.
C4_MalformedRaisesInvalidColorFormat ==
    cpc = "done" /\ HasRgbaPrefix(color_str) /\ ~WellFormedRgba(color_str) =>
        out = Raise("InvalidColorFormat")

\* C5: a string that starts with # and a string that starts with neither #
\* nor rgba is returned unchanged.
C5_PassThrough ==
    cpc = "done" /\ (~HasRgbaPrefix(color_str) \/ (color_str # <<>> /\ color_str[1] = "#")) =>
        out = Return(Str(color_str))

\* a #RRGGBB string has been returned as it came
C5_Witness ==
    /\ cpc = "done"
    /\ color_str = <<"#", "f", "f", "0", "0", "0", "0">>
    /\ out.how = "return" /\ out.val.kind = "str" /\ out.val.str = color_str

\* C7: the image is square with side (matrix_side + 2 * 4) * 10, where
\* matrix_side = 4 * version + 17, from the rasteriser to the value returned
\* and the file written, with or without a logo.
C7_ImageIsSquare ==
    LET side == ((4 * text.need + 17) + 2 * 4) * 10
    IN  /\ ~img.null =>
              /\ text.need \in 1..MaxVersion
              /\ img.w = side /\ img.h = side
        /\ pc = "done" /\ ~IsEmptyPayload =>
              /\ result.image.w = side /\ result.image.h = side
              /\ files[result.path.uuid].w = side
              /\ files[result.path.uuid].h = side

\* a version 2 symbol with a logo pasted has been returned, 330 pixels wide
C7_Witness ==
    /\ pc = "done" /\ text.need = 2
    /\ result.image.box # NoBox
    /\ result.image.w = 330 /\ result.image.h = 330

\* C8: every (r, g, b) triple the normaliser returns has its components in
\* [0, 255].
C8_TripleInRange ==
    cpc = "done" /\ out.how = "return" /\ out.val.kind = "tuple" =>
        \A i \in 1..3 : out.val.rgb[i] \in 0..255

\* C9 as stated: the logo is exactly a quarter of the image's width and of
\* its height.
C9_LogoExactQuarter ==
    img.box # NoBox => 4 * img.box.w = img.w /\ 4 * img.box.h = img.h

\* C9: the logo is resized to floor(width / 4) by floor(height / 4) whatever
\* its own size; every image side leaves remainder 2 modulo 4, so the logo is
\* 2 pixels short of four times fitting, and covers less than 1/16 of the area.
C9_LogoFloorQuarter ==
    img.box # NoBox =>
        /\ img.box.w = img.w \div 4 /\ img.box.h = img.h \div 4
        /\ img.w - 4 * img.box.w = 2 /\ img.h - 4 * img.box.h = 2
        /\ 16 * img.box.w * img.box.h < img.w * img.h

\* a 400 x 100 logo has been stretched to 72 x 72 on a 290 pixel image
C9_Witness ==
    /\ img.box # NoBox /\ logo_file.w = 400 /\ logo_file.h = 100
    /\ img.w = 290 /\ img.box.w = 72 /\ img.box.h = 72

\* C10: the logo is pasted at (floor((W - w) / 2), floor((H - h) / 2)), lies
\* inside the image, and its margins are equal left and right, top and bottom.
C10_LogoCentered ==
    img.box # NoBox =>
        LET b == img.box
        IN  /\ b.x = (img.w - b.w) \div 2 /\ b.y = (img.h - b.h) \div 2
            /\ b.x >= 0 /\ b.y >= 0
            /\ b.x + b.w <= img.w /\ b.y + b.h <= img.h
            /\ b.x = img.w - (b.x + b.w)
            /\ b.y = img.h - (b.y + b.h)

\* on the largest symbol the logo sits 694 pixels from either edge
C10_Witness ==
    /\ img.box # NoBox /\ text.need = MaxVersion
    /\ img.box.x = 694 /\ img.w - (img.box.x + img.box.w) = 694

=============================================================================
